---------------------------- MODULE Spec2Model ----------------------------
(***************************************************************************)
(* reconstant: one YAML document of constants and enums is rendered into   *)
(* one source file per configured output language.                         *)
(*                                                                         *)
(* Text is modelled at character level: a Python str is a sequence of      *)
(* one-character strings, so that quoting, escaping, line splitting and    *)
(* the identifier transformations are computed, not assumed.               *)
(* An Optional[str] is <<>> for None and <<s>> for the string s.           *)
(* A constant's value is [type, i, s]: an int n is ("int", n, <<>>), a     *)
(* str is ("str", 0, chars), and the float whose repr is "w.f" is          *)
(* ("float", w, f).                                                        *)
(***************************************************************************)
EXTENDS Integers, Sequences, FiniteSets, TLC

(***************************************************************************)
(* Bounds of the model.                                                    *)
(***************************************************************************)
MaxConstants == 2
MaxEnums == 2
MaxTargets == 2
MaxRuns == 2
MaxNameLen == 2
MaxStrLen == 2
MaxValues == 3

(***************************************************************************)
(* Python built-ins on text.                                               *)
(***************************************************************************)
Lowers == <<"a", "b", "c", "d", "e", "f", "g", "h", "i", "j", "k", "l", "m",
            "n", "o", "p", "q", "r", "s", "t", "u", "v", "w", "x", "y", "z">>
Uppers == <<"A", "B", "C", "D", "E", "F", "G", "H", "I", "J", "K", "L", "M",
            "N", "O", "P", "Q", "R", "S", "T", "U", "V", "W", "X", "Y", "Z">>
DigitChars == <<"0", "1", "2", "3", "4", "5", "6", "7", "8", "9">>

IsLower(ch) == \E j \in 1..Len(Lowers) : Lowers[j] = ch
IsUpper(ch) == \E j \in 1..Len(Uppers) : Uppers[j] = ch
IsDigit(ch) == \E j \in 1..Len(DigitChars) : DigitChars[j] = ch

UpperChar(ch) ==
    IF IsLower(ch) THEN Uppers[CHOOSE j \in 1..Len(Lowers) : Lowers[j] = ch]
    ELSE ch
LowerChar(ch) ==
    IF IsUpper(ch) THEN Lowers[CHOOSE j \in 1..Len(Uppers) : Uppers[j] = ch]
    ELSE ch

\* str.upper(), str.lower()
Upper(s) == [j \in 1..Len(s) |-> UpperChar(s[j])]
Lower(s) == [j \in 1..Len(s) |-> LowerChar(s[j])]

RECURSIVE Flatten(_)
Flatten(ss) == IF ss = <<>> THEN <<>> ELSE Head(ss) \o Flatten(Tail(ss))

\* sep.join(parts)
RECURSIVE Join(_, _)
Join(parts, sep) ==
    IF parts = <<>> THEN <<>>
    ELSE IF Len(parts) = 1 THEN parts[1]
    ELSE parts[1] \o sep \o Join(Tail(parts), sep)

\* s * n
RECURSIVE Repeat(_, _)
Repeat(s, n) == IF n = 0 THEN <<>> ELSE s \o Repeat(s, n - 1)

\* str.splitlines(): no trailing empty line, "" gives []
RECURSIVE SplitLines(_)
SplitLines(s) ==
    IF s = <<>> THEN <<>>
    ELSE IF \E j \in 1..Len(s) : s[j] = "\n"
    THEN LET p == CHOOSE j \in 1..Len(s) :
                     s[j] = "\n" /\ \A q \in 1..(j - 1) : s[q] # "\n"
         IN  <<SubSeq(s, 1, p - 1)>> \o SplitLines(SubSeq(s, p + 1, Len(s)))
    ELSE <<s>>

\* str.replace(old, new) for a one-character old
ReplaceChar(s, old, new) ==
    Flatten([j \in 1..Len(s) |-> IF s[j] = old THEN new ELSE <<s[j]>>])

\* whether pat occurs in s at position p
MatchAt(s, p, pat) ==
    /\ p + Len(pat) - 1 <= Len(s)
    /\ \A q \in 1..Len(pat) : s[p + q - 1] = pat[q]

\* str.replace(old, new): leftmost non-overlapping occurrences
RECURSIVE Replace(_, _, _)
Replace(s, old, new) ==
    IF s = <<>> THEN <<>>
    ELSE IF MatchAt(s, 1, old)
    THEN new \o Replace(SubSeq(s, Len(old) + 1, Len(s)), old, new)
    ELSE <<Head(s)>> \o Replace(Tail(s), old, new)

\* str(n) for a natural number
RECURSIVE Digits(_)
Digits(n) ==
    IF n < 10 THEN <<DigitChars[n + 1]>>
    ELSE Digits(n \div 10) \o <<DigitChars[(n % 10) + 1]>>

\* str(i) for an int
IntStr(i) == IF i < 0 THEN <<"-">> \o Digits(0 - i) ELSE Digits(i)

\* f"{constant.value}": str() of an int, a str or a float
PyStr(value) ==
    CASE value.type = "int" -> IntStr(value.i)
      [] value.type = "str" -> value.s
      [] OTHER -> IntStr(value.i) \o <<".">> \o value.s

\* type(constant.value).__name__
TypeName(value) ==
    CASE value.type = "int" -> <<"i", "n", "t">>
      [] value.type = "str" -> <<"s", "t", "r">>
      [] OTHER -> <<"f", "l", "o", "a", "t">>

\* os.path.basename(path)
RECURSIVE Basename(_)
Basename(path) ==
    IF \E j \in 1..Len(path) : path[j] = "/"
    THEN LET p == CHOOSE j \in 1..Len(path) : path[j] = "/"
         IN  Basename(SubSeq(path, p + 1, Len(path)))
    ELSE path

(***************************************************************************)
(* inflection.underscore and inflection.camelize, as the renderers use     *)
(* them.                                                                   *)
(*   underscore: re.sub(r"([A-Z]+)([A-Z][a-z])", r"\1_\2"), then           *)
(*               re.sub(r"([a-z\d])([A-Z])", r"\1_\2"), "-" to "_", lower  *)
(*   camelize(s, False): s[0].lower() + camelize(s)[1:], where camelize(s) *)
(*               is re.sub(r"(?:^|_)(.)", upper of group 1)                *)
(***************************************************************************)
UnderscoreBreak(w, j) ==
    /\ j > 1
    /\ \/ /\ IsUpper(w[j - 1]) /\ IsUpper(w[j])
          /\ j < Len(w) /\ IsLower(w[j + 1])
       \/ /\ IsLower(w[j - 1]) \/ IsDigit(w[j - 1])
          /\ IsUpper(w[j])

underscore(w) ==
    Lower(ReplaceChar(
        Flatten([j \in 1..Len(w) |->
                    IF UnderscoreBreak(w, j) THEN <<"_", w[j]>> ELSE <<w[j]>>]),
        "-", <<"_">>))

\* the matches of (?:^|_)(.) scanned left to right; atStart is the ^ branch
RECURSIVE CamelizeScan(_, _)
CamelizeScan(s, atStart) ==
    IF s = <<>> THEN <<>>
    ELSE IF atStart
    THEN <<UpperChar(s[1])>> \o CamelizeScan(Tail(s), FALSE)
    ELSE IF s[1] = "_" /\ Len(s) >= 2
    THEN <<UpperChar(s[2])>> \o CamelizeScan(SubSeq(s, 3, Len(s)), FALSE)
    ELSE <<s[1]>> \o CamelizeScan(Tail(s), FALSE)

camelize(s) == <<LowerChar(s[1])>> \o Tail(CamelizeScan(s, TRUE))


(***************************************************************************)
(* The renderer classes.  self is [cls, path, common_comment,              *)
(* comment_mark, comment_indentation]; every operation returns the text    *)
(* it writes to self's sink.  output_constant returns [raised, error,      *)
(* text]: raised with the name of the illegal type, or the text written.   *)
(***************************************************************************)
Classes == {"Outputer", "Python2Outputer", "Python3Outputer",
            "JavascriptOutputer", "JavaOutputer", "RustOutputer",
            "COutputer", "VueMixinOutputer", "ROutputer", "DartOutputer"}

\* the comment_mark each __init__ passes up
CommentMark(cls) ==
    IF cls \in {"Outputer", "Python2Outputer", "Python3Outputer", "ROutputer"}
    THEN <<"#">>
    ELSE <<"/", "/">>

\* the comment_indentation each __init__ passes up
CommentIndentation(cls) == IF cls = "JavaOutputer" THEN 1 ELSE 0

Wrote(text) == [raised |-> FALSE, error |-> <<>>, text |-> text]
Raised(error) == [raised |-> TRUE, error |-> error, text |-> <<>>]

\* enumerate(enum.values): the index paired with the value at position j
\* (EnumIndexOffByOne: the fault of counting from one)
EnumIndexOffByOne(j) == j
EnumIndex(j) == j - 1

Outputer_output_enum(self, enum, prefix, assignment, suffix) ==
    Flatten([j \in 1..Len(enum.values) |->
                prefix \o enum.values[j] \o <<" ">> \o assignment \o <<" ">>
                \o IntStr(EnumIndex(j)) \o suffix \o <<"\n">>])

Outputer_output_comment(self, comment, start_with_newline) ==
    LET indent == Repeat(<<"\t">>, self.comment_indentation)
        split == SplitLines(comment)
        lines == [j \in 1..Len(split) |->
                     indent \o self.comment_mark \o <<" ">> \o split[j]]
    IN  (IF start_with_newline THEN <<"\n">> ELSE <<>>)
        \o Join(lines, <<"\n">>) \o <<"\n">>

\* the else branch of Outputer.output_constant: the exception
\* (IllegalTypeUnchecked: the fault of formatting the value instead)
IllegalTypeUnchecked(constant, prefix, assignment, suffix) ==
    Wrote(prefix \o constant.name \o <<" ">> \o assignment \o <<" ">>
          \o PyStr(constant.value) \o suffix \o <<"\n">>)
IllegalType(constant, prefix, assignment, suffix) ==
    Raised(TypeName(constant.value))

Outputer_output_constant(self, constant, prefix, assignment, suffix) ==
    IF constant.value.type = "int"
    THEN Wrote(prefix \o constant.name \o <<" ">> \o assignment \o <<" ">>
               \o IntStr(constant.value.i) \o suffix \o <<"\n">>)
    ELSE IF constant.value.type = "str"
    THEN Wrote(prefix \o constant.name \o <<" ">> \o assignment \o <<" ">>
               \o <<"\"">> \o constant.value.s \o <<"\"">> \o suffix \o <<"\n">>)
    ELSE IllegalType(constant, prefix, assignment, suffix)

\* a falsy common_comment (None or "") writes nothing
Outputer_output_header(self) ==
    IF self.common_comment # <<>> /\ self.common_comment[1] # <<>>
    THEN Outputer_output_comment(self, self.common_comment[1], FALSE)
    ELSE <<>>

Outputer_output_footer(self) == <<>>

Python2Outputer_output_enum(self, enum) ==
    Outputer_output_enum(self, enum,
        Upper(underscore(enum.name)) \o <<"_">>, <<"=">>, <<>>)

Python3Outputer_output_header(self) ==
    Outputer_output_header(self)
    \o <<"f", "r", "o", "m", " ", "e", "n", "u", "m", " ", "i", "m", "p", "o",
         "r", "t", " ", "I", "n", "t", "E", "n", "u", "m", "\n">>

Python3Outputer_output_enum(self, enum) ==
    <<"c", "l", "a", "s", "s", " ">> \o enum.name
    \o <<"(", "I", "n", "t", "E", "n", "u", "m", ")", ":", "\n">>
    \o Outputer_output_enum(self, enum, <<"\t">>, <<"=">>, <<>>)
    \o <<"\n">>

JavascriptOutputer_output_enum(self, enum) ==
    <<"e", "x", "p", "o", "r", "t", " ", "c", "o", "n", "s", "t", " ">>
    \o enum.name \o <<" ", "=", " ", "{", "\n">>
    \o Outputer_output_enum(self, enum, <<"\t">>, <<":">>, <<",">>)
    \o <<"}", "\n">>

JavascriptOutputer_output_constant(self, constant) ==
    Outputer_output_constant(self, constant,
        <<"e", "x", "p", "o", "r", "t", " ", "c", "o", "n", "s", "t", " ">>,
        <<"=">>, <<>>)

JavaOutputer_get_class_name(self) ==
    Replace(Basename(self.path), <<".", "j", "a", "v", "a">>, <<>>)

JavaOutputer_output_header(self) ==
    Outputer_output_header(self)
    \o <<"p", "u", "b", "l", "i", "c", " ", "f", "i", "n", "a", "l", " ",
         "c", "l", "a", "s", "s", " ">>
    \o JavaOutputer_get_class_name(self) \o <<" ", "{", "\n">>

JavaOutputer_output_footer(self) ==
    Outputer_output_footer(self) \o <<"\n", "}">>

JavaOutputer_output_enum(self, enum) ==
    <<"\t", "p", "u", "b", "l", "i", "c", " ", "e", "n", "u", "m", " ">>
    \o enum.name \o <<" ", "{", "\n", "\t", "\t">>
    \o Join(enum.values, <<",", " ", "\n", "\t", "\t">>)
    \o <<"\n", "\t", "}", "\n">>

JavaOutputer_output_constant(self, constant) ==
    LET name == Upper(underscore(constant.name))
    IN  IF constant.value.type = "str"
        THEN Wrote(<<"\t", "p", "u", "b", "l", "i", "c", " ", "s", "t", "a",
                     "t", "i", "c", " ", "f", "i", "n", "a", "l", " ", "S",
                     "t", "r", "i", "n", "g", " ">>
                   \o name \o <<" ", "=", " ", "\"">> \o constant.value.s
                   \o <<"\"", ";", "\n">>)
        ELSE Wrote(<<"\t", "p", "u", "b", "l", "i", "c", " ", "s", "t", "a",
                     "t", "i", "c", " ", "f", "i", "n", "a", "l", " ">>
                   \o TypeName(constant.value) \o <<" ">> \o name
                   \o <<" ", "=", " ">> \o PyStr(constant.value)
                   \o <<";", "\n">>)

RustOutputer_output_enum(self, enum) ==
    <<"p", "u", "b", " ", "e", "n", "u", "m", " ">> \o enum.name
    \o <<" ", "{", "\n", "\t">>
    \o Join(enum.values, <<",", " ", "\n", "\t">>)
    \o <<"\n", "}", "\n">>

\* {int: 'i32', float: 'f32', str: '&str'}.get(type, type.__name__)
RustTypeName(value) ==
    CASE value.type = "int" -> <<"i", "3", "2">>
      [] value.type = "float" -> <<"f", "3", "2">>
      [] value.type = "str" -> <<"&", "s", "t", "r">>
      [] OTHER -> TypeName(value)

RustOutputer_output_constant(self, constant) ==
    LET name == Upper(underscore(constant.name))
        t == RustTypeName(constant.value)
        quotes == IF t = <<"&", "s", "t", "r">> THEN <<"\"">> ELSE <<>>
    IN  Wrote(<<"p", "u", "b", " ", "c", "o", "n", "s", "t", " ">> \o name
              \o <<":", " ">> \o t \o <<" ", "=", " ">> \o quotes
              \o PyStr(constant.value) \o quotes \o <<";", "\n">>)

COutputer_get_guard_name(self) ==
    Upper(ReplaceChar(ReplaceChar(self.path, "/", <<"_">>), ".", <<"_">>))

COutputer_output_header(self) ==
    Outputer_output_header(self)
    \o <<"#", "i", "f", "n", "d", "e", "f", " ">>
    \o COutputer_get_guard_name(self) \o <<"\n">>
    \o <<"#", "d", "e", "f", "i", "n", "e", " ">>
    \o COutputer_get_guard_name(self) \o <<"\n">>

COutputer_output_footer(self) ==
    Outputer_output_footer(self)
    \o <<"\n", "#", "e", "n", "d", "i", "f", " ", "/", "*", " ">>
    \o COutputer_get_guard_name(self) \o <<" ", "*", "/">>

COutputer_output_enum(self, enum) ==
    <<"t", "y", "p", "e", "d", "e", "f", " ", "e", "n", "u", "m", " ", "{",
      " ">>
    \o Join(enum.values, <<",", " ">>) \o <<" ", "}", " ">> \o enum.name
    \o <<";", "\n">>

COutputer_output_constant(self, constant) ==
    LET name == Upper(underscore(constant.name))
    IN  IF constant.value.type = "str"
        THEN Wrote(<<"#", "d", "e", "f", "i", "n", "e", " ">> \o name
                   \o <<" ", "\"">> \o constant.value.s \o <<"\"", "\n">>)
        ELSE Wrote(<<"#", "d", "e", "f", "i", "n", "e", " ">> \o name
                   \o <<" ">> \o PyStr(constant.value) \o <<"\n">>)

VueMixinOutputer_output_enum(self, enum) ==
    JavascriptOutputer_output_enum(self, enum)
    \o <<"\n">> \o enum.name
    \o <<".", "M", "i", "x", "i", "n", " ", "=", " ", "{", "\n", " ", " ",
         "c", "r", "e", "a", "t", "e", "d", " ", "(", ")", " ", "{", "\n",
         " ", " ", " ", " ", " ", " ", "t", "h", "i", "s", ".">>
    \o enum.name \o <<" ", "=", " ">> \o enum.name
    \o <<"\n", " ", " ", "}", "\n", "}", "\n">>

ROutputer_output_enum(self, enum) ==
    Outputer_output_enum(self, enum,
        Upper(underscore(enum.name)) \o <<"_">>, <<"<", "-">>, <<>>)

ROutputer_output_constant(self, constant) ==
    IF constant.value.type = "int"
    THEN Wrote(constant.name \o <<" ", "<", "-", " ">>
               \o IntStr(constant.value.i) \o <<"\n">>)
    ELSE IF constant.value.type = "str"
    THEN Wrote(constant.name \o <<" ", "<", "-", " ", "\"">>
               \o constant.value.s \o <<"\"", "\n">>)
    ELSE Raised(TypeName(constant.value))

DartOutputer_output_header(self) ==
    Outputer_output_header(self)
    \o <<"l", "i", "b", "r", "a", "r", "y", " ", "c", "o", "n", "s", "t",
         "a", "n", "t", "s", ";", "\n", "\n">>

DartOutputer_output_enum(self, enum) ==
    <<"e", "n", "u", "m", " ">> \o enum.name \o <<" ", "{", "\n">>
    \o <<" ", " ">>
    \o Join([j \in 1..Len(enum.values) |-> Lower(enum.values[j])],
            <<",", "\n", " ", " ">>)
    \o <<"\n", "}", "\n">>

\* constant.value.replace('"', '\\"').replace('\n', '\\n')
DartEscape(s) == ReplaceChar(ReplaceChar(s, "\"", <<"\\", "\"">>),
                             "\n", <<"\\", "n">>)

DartOutputer_output_constant(self, constant) ==
    LET dart_name == camelize(Lower(constant.name))
    IN  IF constant.value.type = "int"
        THEN Wrote(<<"c", "o", "n", "s", "t", " ">> \o dart_name
                   \o <<" ", "=", " ">> \o IntStr(constant.value.i)
                   \o <<";", "\n">>)
        ELSE IF constant.value.type = "str"
        THEN Wrote(<<"c", "o", "n", "s", "t", " ">> \o dart_name
                   \o <<" ", "=", " ", "\"">> \o DartEscape(constant.value.s)
                   \o <<"\"", ";", "\n">>)
        ELSE Raised(TypeName(constant.value))

(***************************************************************************)
(* Method resolution: the operation each class runs.                       *)
(***************************************************************************)
output_header(self) ==
    CASE self.cls = "Python3Outputer" -> Python3Outputer_output_header(self)
      [] self.cls = "JavaOutputer" -> JavaOutputer_output_header(self)
      [] self.cls = "COutputer" -> COutputer_output_header(self)
      [] self.cls = "DartOutputer" -> DartOutputer_output_header(self)
      [] OTHER -> Outputer_output_header(self)

output_comment(self, comment) == Outputer_output_comment(self, comment, TRUE)

output_constant(self, constant) ==
    CASE self.cls \in {"JavascriptOutputer", "VueMixinOutputer"} ->
             JavascriptOutputer_output_constant(self, constant)
      [] self.cls = "JavaOutputer" -> JavaOutputer_output_constant(self, constant)
      [] self.cls = "RustOutputer" -> RustOutputer_output_constant(self, constant)
      [] self.cls = "COutputer" -> COutputer_output_constant(self, constant)
      [] self.cls = "ROutputer" -> ROutputer_output_constant(self, constant)
      [] self.cls = "DartOutputer" -> DartOutputer_output_constant(self, constant)
      [] OTHER -> Outputer_output_constant(self, constant, <<>>, <<"=">>, <<>>)

output_enum(self, enum) ==
    CASE self.cls = "Python2Outputer" -> Python2Outputer_output_enum(self, enum)
      [] self.cls = "Python3Outputer" -> Python3Outputer_output_enum(self, enum)
      [] self.cls = "JavascriptOutputer" -> JavascriptOutputer_output_enum(self, enum)
      [] self.cls = "JavaOutputer" -> JavaOutputer_output_enum(self, enum)
      [] self.cls = "RustOutputer" -> RustOutputer_output_enum(self, enum)
      [] self.cls = "COutputer" -> COutputer_output_enum(self, enum)
      [] self.cls = "VueMixinOutputer" -> VueMixinOutputer_output_enum(self, enum)
      [] self.cls = "ROutputer" -> ROutputer_output_enum(self, enum)
      [] self.cls = "DartOutputer" -> DartOutputer_output_enum(self, enum)
      [] OTHER -> Outputer_output_enum(self, enum, <<>>, <<"=">>, <<>>)

output_footer(self) ==
    CASE self.cls = "JavaOutputer" -> JavaOutputer_output_footer(self)
      [] self.cls = "COutputer" -> COutputer_output_footer(self)
      [] OTHER -> Outputer_output_footer(self)


(***************************************************************************)
(* The document (the object yaml.safe_load returns) and the state of one   *)
(* run of main.                                                            *)
(***************************************************************************)
VARIABLES
    doc,        \* python_obj: [common_comment, constants, enums, outputs]
    pc,         \* where main is: "start", "process_input", "done";
                \* "direct", "returned" when one operation is called directly
    config,     \* the RootConfig parse_obj built: [constants, enums, outputs]
    outputers,  \* the list process_input builds from outputs.__fields_set__
    pos,        \* process_input's position: [oi, phase, k]
    sinks,      \* per renderer, its _output: "none", "open" or "closed"
    fs,         \* per renderer, the file at its path: <<>> or <<contents>>
    calls,      \* per renderer, the operations called on it: [op, arg]
    last,       \* the last operation: [t, op, wrote, raised, error]
    run,        \* which run of the program this is
    snapshot,   \* fs as the previous run of the program left it
    direct      \* the entity a directly called operation is given

vars == <<doc, pc, config, outputers, pos, sinks, fs, calls, last, run,
          snapshot, direct>>

\* the fields of AllOutputs and the class of each
\* (AllOutputsFieldsNoDart: the fault of a field left out)
AllOutputsFieldsNoDart ==
    {"python", "python2", "javascript", "vue", "c", "java", "rust", "r"}
AllOutputsFields ==
    {"python", "python2", "javascript", "vue", "c", "java", "rust", "r",
     "dart"}

OutputerClass(key) ==
    CASE key = "python" -> "Python3Outputer"
      [] key = "python2" -> "Python2Outputer"
      [] key = "javascript" -> "JavascriptOutputer"
      [] key = "vue" -> "VueMixinOutputer"
      [] key = "c" -> "COutputer"
      [] key = "java" -> "JavaOutputer"
      [] key = "rust" -> "RustOutputer"
      [] key = "r" -> "ROutputer"
      [] key = "dart" -> "DartOutputer"
      [] OTHER -> "Outputer"

\* Renderers: one per AllOutputs field, and "outputer", the base class
\* constructed directly.
Renderers ==
    {"python", "python2", "javascript", "vue", "c", "java", "rust", "r",
     "dart", "outputer"}

\* The keys a document's outputs may hold: the AllOutputs fields and one
\* key that names no field.
DocKeys ==
    {"python", "python2", "javascript", "vue", "c", "java", "rust", "r",
     "dart", "go"}

\* The path each output is configured with.  Every path has a directory
\* part (creating the directory is outside the model) and no two outputs
\* share a path.
PathOf(key) ==
    CASE key = "python" -> <<"o", "/", "p", ".", "p", "y">>
      [] key = "python2" -> <<"o", "/", "q", ".", "p", "y">>
      [] key = "javascript" -> <<"o", "/", "j", ".", "j", "s">>
      [] key = "vue" -> <<"o", "/", "v", ".", "j", "s">>
      [] key = "c" -> <<"o", "/", "k", ".", "h">>
      [] key = "java" -> <<"o", "/", "K", ".", "j", "a", "v", "a">>
      [] key = "rust" -> <<"o", "/", "k", ".", "r", "s">>
      [] key = "r" -> <<"o", "/", "k", ".", "R">>
      [] key = "dart" -> <<"o", "/", "k", ".", "d", "a", "r", "t">>
      [] OTHER -> <<"o", "/", "k", ".", "x">>

IntVal(n) == [type |-> "int", i |-> n, s |-> <<>>]
StrVal(chars) == [type |-> "str", i |-> 0, s |-> chars]
FloatVal(w, f) == [type |-> "float", i |-> w, s |-> f]

\* The constants and enums a document of a run of main is drawn from.
AllConstants ==
    << [name |-> <<"M", "A", "X", "_", "U", "S", "E", "R", "S">>,
        value |-> IntVal(100)],
       [name |-> <<"S", "a", "i", "d">>,
        value |-> StrVal(<<"\"", "h", "i", "\"", "\n">>)],
       [name |-> <<"R", "a", "t", "e">>,
        value |-> FloatVal(1, <<"5">>)] >>

AllEnums ==
    << [name |-> <<"C", "o", "l", "o", "r">>,
        values |-> << <<"R", "E", "D">>, <<"G", "R", "E", "E", "N">> >>],
       [name |-> <<"N", "o", "n", "e">>, values |-> <<>>] >>

DocComments == { <<>>, << <<"d", "o", "c">> >> }
TargetComments == { <<>>, << <<"o", "w", "n">> >> }

Range(l) == { l[j] : j \in 1..Len(l) }
Min(a, b) == IF a < b THEN a ELSE b

\* lists of distinct elements of pool, of at most max elements
Lists(pool, max) ==
    { l \in UNION { [1..n -> pool] : n \in 0..max } :
        \A a, b \in 1..Len(l) : a # b => l[a] # l[b] }

OutputsOver(keys) ==
    { [key \in keys |-> [path |-> PathOf(key), common_comment |-> f[key]]] :
        f \in [keys -> TargetComments] }

OutputsOfAtMost(n) ==
    UNION { OutputsOver(keys) :
              keys \in { ks \in SUBSET DocKeys : Cardinality(ks) <= n } }

\* The documents: any constants and enums for at most one output, and the
\* longest lists of constants and enums for any outputs.
Docs ==
    { [common_comment |-> cc, constants |-> cs, enums |-> es, outputs |-> os] :
        cc \in DocComments,
        cs \in Lists(Range(AllConstants), MaxConstants),
        es \in Lists(Range(AllEnums), MaxEnums),
        os \in OutputsOfAtMost(1) }
    \cup
    { [common_comment |-> cc,
       constants |-> SubSeq(AllConstants, 1,
                            Min(MaxConstants, Len(AllConstants))),
       enums |-> SubSeq(AllEnums, 1, Min(MaxEnums, Len(AllEnums))),
       outputs |-> os] :
        cc \in DocComments, os \in OutputsOfAtMost(MaxTargets) }

NoConfig == [constants |-> <<>>, enums |-> <<>>,
             outputs |-> [key \in {} |-> <<>>]]
NoLast == [t |-> "", op |-> "", wrote |-> <<>>, raised |-> FALSE,
           error |-> <<>>]
NoDirect == [kind |-> "", constant |-> [name |-> <<>>, value |-> IntVal(0)],
             enum |-> [name |-> <<>>, values |-> <<>>], comment |-> <<>>]
NoPos == [oi |-> 0, phase |-> "", k |-> 0]

Init ==
    /\ doc \in Docs
    /\ pc = "start"
    /\ config = NoConfig
    /\ outputers = <<>>
    /\ pos = NoPos
    /\ sinks = [t \in Renderers |-> "none"]
    /\ fs = [t \in Renderers |-> <<>>]
    /\ calls = [t \in Renderers |-> <<>>]
    /\ last = NoLast
    /\ run = 1
    /\ snapshot = [t \in Renderers |-> <<>>]
    /\ direct = NoDirect

(***************************************************************************)
(* main, lines 280-285: the document-level comment is written into every   *)
(* output's configuration, then RootConfig.parse_obj validates the         *)
(* document, which constructs an Outputer for every AllOutputs field the   *)
(* document's outputs hold.                                                *)
(***************************************************************************)
\* lines 282-284
InjectComment(obj) ==
    IF obj.common_comment # <<>> /\ obj.common_comment[1] # <<>>
    THEN [obj EXCEPT !.outputs =
             [key \in DOMAIN obj.outputs |->
                 [obj.outputs[key] EXCEPT
                     !.common_comment = obj.common_comment]]]
    ELSE obj

\* pydantic's validation of value: Union[int, str]: int is tried first and
\* takes a float by int(v); a str stays a str
ValidateValue(value) ==
    IF value.type = "float" THEN IntVal(value.i) ELSE value

\* open(self.path, "w") on the file as it is: truncated, or created empty
\* (OpenAppending: the fault of mode "a")
OpenAppending(file) == IF file = <<>> THEN << <<>> >> ELSE file
Open(file) == << <<>> >>

\* Outputer.__init__ and the __init__ of each class
Outputer_init(key, cfg) ==
    [cls |-> OutputerClass(key), path |-> cfg.path,
     common_comment |-> cfg.common_comment,
     comment_mark |-> CommentMark(OutputerClass(key)),
     comment_indentation |-> CommentIndentation(OutputerClass(key))]

\* outputs.__fields_set__: the AllOutputs fields the input set; a key that
\* names no field is ignored
FieldsSet(outputs) == DOMAIN outputs \cap AllOutputsFields

\* RootConfig.parse_obj
ParseObj(obj) ==
    [constants |-> [j \in 1..Len(obj.constants) |->
                       [name |-> obj.constants[j].name,
                        value |-> ValidateValue(obj.constants[j].value)]],
     enums |-> obj.enums,
     outputs |-> [key \in FieldsSet(obj.outputs) |->
                     Outputer_init(key, obj.outputs[key])]]

\* the orders a list built by iterating over a set may have
Orders(set) ==
    { l \in [1..Cardinality(set) -> set] :
        \A a, b \in 1..Len(l) : a # b => l[a] # l[b] }

\* process_input's position after the operation at position p, lines 264-272
\* (NextPosEnumsFirst: the fault of the two sections swapped)
NextPosEnumsFirst(p, cfg) ==
    CASE p.phase = "header" -> [p EXCEPT !.phase = "enums_comment"]
      [] p.phase = "enums_comment" ->
             IF Len(cfg.enums) > 0
             THEN [p EXCEPT !.phase = "enums", !.k = 1]
             ELSE [p EXCEPT !.phase = "constants_comment"]
      [] p.phase = "enums" ->
             IF p.k < Len(cfg.enums)
             THEN [p EXCEPT !.k = p.k + 1]
             ELSE [p EXCEPT !.phase = "constants_comment", !.k = 0]
      [] p.phase = "constants_comment" ->
             IF Len(cfg.constants) > 0
             THEN [p EXCEPT !.phase = "constants", !.k = 1]
             ELSE [p EXCEPT !.phase = "footer"]
      [] p.phase = "constants" ->
             IF p.k < Len(cfg.constants)
             THEN [p EXCEPT !.k = p.k + 1]
             ELSE [p EXCEPT !.phase = "footer", !.k = 0]
      [] OTHER -> [oi |-> p.oi + 1, phase |-> "header", k |-> 0]
NextPos(p, cfg) ==
    CASE p.phase = "header" -> [p EXCEPT !.phase = "constants_comment"]
      [] p.phase = "constants_comment" ->
             IF Len(cfg.constants) > 0
             THEN [p EXCEPT !.phase = "constants", !.k = 1]
             ELSE [p EXCEPT !.phase = "enums_comment"]
      [] p.phase = "constants" ->
             IF p.k < Len(cfg.constants)
             THEN [p EXCEPT !.k = p.k + 1]
             ELSE [p EXCEPT !.phase = "enums_comment", !.k = 0]
      [] p.phase = "enums_comment" ->
             IF Len(cfg.enums) > 0
             THEN [p EXCEPT !.phase = "enums", !.k = 1]
             ELSE [p EXCEPT !.phase = "footer"]
      [] p.phase = "enums" ->
             IF p.k < Len(cfg.enums)
             THEN [p EXCEPT !.k = p.k + 1]
             ELSE [p EXCEPT !.phase = "footer", !.k = 0]
      [] OTHER -> [oi |-> p.oi + 1, phase |-> "header", k |-> 0]

\* self._output.write(text): the text goes to the end of the file
Write(file, text) == << file[1] \o text >>

Load ==
    /\ pc = "start"
    /\ LET cfg == ParseObj(InjectComment(doc))
       IN  /\ config' = cfg
           /\ sinks' = [t \in Renderers |->
                           IF t \in DOMAIN cfg.outputs THEN "open"
                           ELSE sinks[t]]
           /\ fs' = [t \in Renderers |->
                        IF t \in DOMAIN cfg.outputs THEN Open(fs[t])
                        ELSE fs[t]]
           /\ outputers' \in Orders(FieldsSet(cfg.outputs))
    /\ pc' = "process_input"
    /\ pos' = [oi |-> 1, phase |-> "header", k |-> 0]
    /\ UNCHANGED <<doc, calls, last, run, snapshot, direct>>

\* the renderer process_input is driving
Current == outputers[pos.oi]
Driving(phase) ==
    /\ pc = "process_input"
    /\ pos.oi <= Len(outputers)
    /\ pos.phase = phase

\* one operation of renderer t: what it wrote goes to t's file and the call
\* is logged
Emit(t, op, arg, text) ==
    /\ fs' = [fs EXCEPT ![t] = Write(fs[t], text)]
    /\ calls' = [calls EXCEPT ![t] = Append(calls[t], [op |-> op, arg |-> arg])]
    /\ last' = [t |-> t, op |-> op, wrote |-> text, raised |-> FALSE,
                error |-> <<>>]

Step ==
    /\ pos' = NextPos(pos, config)
    /\ UNCHANGED <<doc, pc, config, outputers, sinks, run, snapshot, direct>>

OutputHeader ==
    /\ Driving("header")
    /\ Emit(Current, "output_header", <<>>,
            output_header(config.outputs[Current]))
    /\ Step

OutputConstantsComment ==
    /\ Driving("constants_comment")
    /\ Emit(Current, "output_comment",
            <<"c", "o", "n", "s", "t", "a", "n", "t", "s">>,
            output_comment(config.outputs[Current],
                           <<"c", "o", "n", "s", "t", "a", "n", "t", "s">>))
    /\ Step

\* a constant parse_obj validated is an int or a str: no operation raises
OutputConstant ==
    /\ Driving("constants")
    /\ Emit(Current, "output_constant", config.constants[pos.k].name,
            output_constant(config.outputs[Current],
                            config.constants[pos.k]).text)
    /\ Step

OutputEnumsComment ==
    /\ Driving("enums_comment")
    /\ Emit(Current, "output_comment", <<"e", "n", "u", "m", "s">>,
            output_comment(config.outputs[Current],
                           <<"e", "n", "u", "m", "s">>))
    /\ Step

OutputEnum ==
    /\ Driving("enums")
    /\ Emit(Current, "output_enum", config.enums[pos.k].name,
            output_enum(config.outputs[Current], config.enums[pos.k]))
    /\ Step

OutputFooter ==
    /\ Driving("footer")
    /\ Emit(Current, "output_footer", <<>>,
            output_footer(config.outputs[Current]))
    /\ Step

\* process_input and main return
Return ==
    /\ pc = "process_input"
    /\ pos.oi > Len(outputers)
    /\ pc' = "done"
    /\ UNCHANGED <<doc, config, outputers, pos, sinks, fs, calls, last, run,
                   snapshot, direct>>

\* Outputer.__del__: runs when the object is destroyed, which is no earlier
\* than main's return, where the last reference (config) is dropped
Del(t) ==
    /\ pc = "done"
    /\ sinks[t] = "open"
    /\ sinks' = [sinks EXCEPT ![t] = "closed"]
    /\ UNCHANGED <<doc, pc, config, outputers, pos, fs, calls, last, run,
                   snapshot, direct>>

\* the program is run again on the same document, the files left as they are
Rerun ==
    /\ pc = "done"
    /\ \A t \in Renderers : sinks[t] # "open"
    /\ run < MaxRuns
    /\ run' = run + 1
    /\ snapshot' = fs
    /\ pc' = "start"
    /\ config' = NoConfig
    /\ outputers' = <<>>
    /\ pos' = NoPos
    /\ sinks' = [t \in Renderers |-> "none"]
    /\ calls' = [t \in Renderers |-> <<>>]
    /\ last' = NoLast
    /\ UNCHANGED <<doc, fs, direct>>

Next ==
    \/ Load
    \/ OutputHeader
    \/ OutputConstantsComment
    \/ OutputConstant
    \/ OutputEnumsComment
    \/ OutputEnum
    \/ OutputFooter
    \/ Return
    \/ \E t \in Renderers : Del(t)
    \/ Rerun

Spec == Init /\ [][Next]_vars


(***************************************************************************)
(* One operation called directly on a freshly constructed renderer, as     *)
(* an integration that holds partially validated data may: the constant    *)
(* need not have gone through parse_obj, so its value may be a float.      *)
(***************************************************************************)
NameChars == {"a", "B", "_"}
StrChars == {"a", "\"", "\n", "\\"}
Labels == { <<"R">>, <<"g", "B">> }

Strings(chars, min, max) == UNION { [1..n -> chars] : n \in min..max }

DirectConstants ==
    { [name |-> n, value |-> v] :
        n \in Strings(NameChars, 1, MaxNameLen),
        v \in { IntVal(i) : i \in {0 - 12, 0, 7, 100} }
              \cup { StrVal(str) : str \in Strings(StrChars, 0, MaxStrLen) }
              \cup { FloatVal(1, <<"5">>) } }

DirectEnums ==
    { [name |-> n, values |-> vs] :
        n \in Strings(NameChars, 1, MaxNameLen),
        vs \in Strings(Labels, 0, MaxValues) }

DirectCalls ==
    { [kind |-> "constant", constant |-> c, enum |-> NoDirect.enum,
       comment |-> <<>>] : c \in DirectConstants }
    \cup
    { [kind |-> "enum", constant |-> NoDirect.constant, enum |-> e,
       comment |-> <<>>] : e \in DirectEnums }

EmptyDoc == [common_comment |-> <<>>, constants |-> <<>>, enums |-> <<>>,
             outputs |-> [key \in {} |-> <<>>]]

\* the renderer the operation is called on
DirectRenderer == CHOOSE t \in Renderers : sinks[t] = "open"

InitDirect ==
    /\ direct \in DirectCalls
    /\ \E t \in Renderers :
          /\ config = [constants |-> <<>>, enums |-> <<>>,
                       outputs |-> [key \in {t} |->
                           Outputer_init(key, [path |-> PathOf(key),
                                               common_comment |-> <<>>])]]
          /\ sinks = [u \in Renderers |-> IF u = t THEN "open" ELSE "none"]
          /\ fs = [u \in Renderers |-> IF u = t THEN Open(<<>>) ELSE <<>>]
    /\ doc = EmptyDoc
    /\ pc = "direct"
    /\ outputers = <<>>
    /\ pos = NoPos
    /\ calls = [t \in Renderers |-> <<>>]
    /\ last = NoLast
    /\ run = 1
    /\ snapshot = [t \in Renderers |-> <<>>]

DirectOutputConstant ==
    /\ pc = "direct"
    /\ direct.kind = "constant"
    /\ LET t == DirectRenderer
           r == output_constant(config.outputs[t], direct.constant)
       IN  /\ fs' = [fs EXCEPT ![t] = IF r.raised THEN @ ELSE Write(@, r.text)]
           /\ calls' = [calls EXCEPT ![t] =
                           Append(@, [op |-> "output_constant",
                                      arg |-> direct.constant.name])]
           /\ last' = [t |-> t, op |-> "output_constant", wrote |-> r.text,
                       raised |-> r.raised, error |-> r.error]
    /\ pc' = "returned"
    /\ UNCHANGED <<doc, config, outputers, pos, sinks, run, snapshot, direct>>

DirectOutputEnum ==
    /\ pc = "direct"
    /\ direct.kind = "enum"
    /\ Emit(DirectRenderer, "output_enum", direct.enum.name,
            output_enum(config.outputs[DirectRenderer], direct.enum))
    /\ pc' = "returned"
    /\ UNCHANGED <<doc, config, outputers, pos, sinks, run, snapshot, direct>>

NextDirect ==
    \/ DirectOutputConstant
    \/ DirectOutputEnum

SpecDirect == InitDirect /\ [][NextDirect]_vars


(***************************************************************************)
(* Reading emitted text back: what the properties below compare the        *)
(* renderers' output against.                                              *)
(***************************************************************************)
\* the first position of pat in s, 0 if there is none
FindSub(s, pat) ==
    IF \E p \in 1..Len(s) : MatchAt(s, p, pat)
    THEN CHOOSE p \in 1..Len(s) :
             MatchAt(s, p, pat) /\ \A q \in 1..(p - 1) : ~MatchAt(s, q, pat)
    ELSE 0

EndsWith(s, suf) ==
    /\ Len(s) >= Len(suf)
    /\ SubSeq(s, Len(s) - Len(suf) + 1, Len(s)) = suf

IsNumber(s) == s # <<>> /\ \A j \in 1..Len(s) : IsDigit(s[j])

DigitValue(ch) == CHOOSE d \in 0..9 : DigitChars[d + 1] = ch

RECURSIVE ParseNat(_)
ParseNat(ds) ==
    IF ds = <<>> THEN 0
    ELSE 10 * ParseNat(SubSeq(ds, 1, Len(ds) - 1)) + DigitValue(ds[Len(ds)])

\* the ops process_input is to call on one renderer for document d
ExpectedCalls(d) ==
    << [op |-> "output_header", arg |-> <<>>],
       [op |-> "output_comment",
        arg |-> <<"c", "o", "n", "s", "t", "a", "n", "t", "s">>] >>
    \o [j \in 1..Len(d.constants) |->
           [op |-> "output_constant", arg |-> d.constants[j].name]]
    \o << [op |-> "output_comment", arg |-> <<"e", "n", "u", "m", "s">>] >>
    \o [j \in 1..Len(d.enums) |->
           [op |-> "output_enum", arg |-> d.enums[j].name]]
    \o << [op |-> "output_footer", arg |-> <<>>] >>

IsPrefix(a, b) == Len(a) <= Len(b) /\ SubSeq(b, 1, Len(a)) = a

\* the renderers process_input has finished with
Finished ==
    IF pc \in {"process_input", "done"}
    THEN { outputers[j] : j \in 1..Min(pos.oi - 1, Len(outputers)) }
    ELSE {}

\* C1: on every renderer process_input drives, the operations called are a
\* prefix of: output_header, output_comment("constants"), output_constant
\* per constant in declared order, output_comment("enums"), output_enum per
\* enum in declared order, output_footer; and they are exactly that sequence
\* once process_input has finished with the renderer.  A renderer not yet
\* driven has had no operation called.
C1_EmissionSequence ==
    LET expected == ExpectedCalls(doc)
        finished == Finished
    IN  \A t \in Renderers :
            /\ IsPrefix(calls[t], expected)
            /\ t \in finished => calls[t] = expected
            /\ (pc = "process_input" /\ t \notin finished
                   /\ (pos.oi > Len(outputers) \/ t # outputers[pos.oi]))
               => calls[t] = <<>>

C1_Witness ==
    /\ pc = "done"
    /\ Len(outputers) >= 2
    /\ Len(doc.constants) >= 2
    /\ Len(doc.enums) >= 2
    /\ \A j \in 1..Len(outputers) : Len(calls[outputers[j]]) >= 8

\* C2: once process_input has finished with a renderer, that renderer's
\* sink is closed.
C2_SinkClosedAfterSequence ==
    \A t \in Finished : sinks[t] = "closed"

HasFloat(d) ==
    \E j \in 1..Len(d.constants) : d.constants[j].value.type = "float"
HasEmptyEnum(d) ==
    \E j \in 1..Len(d.enums) : d.enums[j].values = <<>>

\* C4: a document with a float constant is rejected (main never gets to
\* process_input) and no output file is created or truncated: no sink is
\* opened and every file is as the run found it.
C4_FloatRejectedNoFile ==
    HasFloat(doc) =>
        /\ pc \notin {"process_input", "done"}
        /\ \A t \in Renderers : sinks[t] = "none" /\ fs[t] = snapshot[t]

\* C5: a document with an enum whose values list is empty is rejected at
\* load time: no renderer is constructed and no operation is called on any.
C5_EmptyEnumRejected ==
    HasEmptyEnum(doc) =>
        /\ pc \notin {"process_input", "done"}
        /\ \A t \in Renderers : calls[t] = <<>> /\ sinks[t] = "none"

\* the renderers that have been constructed, driven or given a file
Touched ==
    { t \in Renderers : sinks[t] # "none" \/ calls[t] # <<>> \/ fs[t] # <<>> }
Completed ==
    LET expected == ExpectedCalls(doc)
    IN  { t \in Renderers : calls[t] = expected /\ fs[t] # <<>> }

Truthy(opt) == opt # <<>> /\ opt[1] # <<>>

\* the header text starts with a comment line that ends with the comment
HeaderShows(text, opt) ==
    /\ SplitLines(text) # <<>>
    /\ EndsWith(SplitLines(text)[1], opt[1])

\* C8: the comment a target's header emits is the target's own
\* common_comment when it has one, and the document's when it has none.
C8_OwnCommentWins ==
    (last.op = "output_header" /\ last.t \in DOMAIN doc.outputs) =>
        LET own == doc.outputs[last.t].common_comment
        IN  /\ Truthy(own) => HeaderShows(last.wrote, own)
            /\ (~Truthy(own) /\ Truthy(doc.common_comment))
                   => HeaderShows(last.wrote, doc.common_comment)

\* C9: a second run of the program on the same document leaves every
\* output file with the contents the first run left.
C9_SecondRunSameBytes ==
    (run > 1 /\ pc = "done") => fs = snapshot

C9_Witness ==
    /\ run = 2
    /\ pc = "done"
    /\ \E t \in Renderers : fs[t] # <<>> /\ Len(fs[t][1]) > 20


(***************************************************************************)
(* Properties of one operation called directly (SpecDirect).               *)
(***************************************************************************)
\* the assignment token and line suffix of the renderers that write an
\* enum as assignment lines
AssignmentOf(t) ==
    CASE t \in {"javascript", "vue"} -> <<":">>
      [] t = "r" -> <<"<", "-">>
      [] OTHER -> <<"=">>
SuffixOf(t) == IF t \in {"javascript", "vue"} THEN <<",">> ELSE <<>>

\* the lines of text that hold " <assignment> "
BindingLines(t, text) ==
    SelectSeq(SplitLines(text),
              LAMBDA l : FindSub(l, <<" ">> \o AssignmentOf(t) \o <<" ">>) > 0)

\* a binding line read back: the text left of the assignment token, and the
\* number right of it
ReadBinding(t, l) ==
    LET tok == <<" ">> \o AssignmentOf(t) \o <<" ">>
        p == FindSub(l, tok)
        rest == SubSeq(l, p + Len(tok), Len(l))
        digits == SubSeq(rest, 1, Len(rest) - Len(SuffixOf(t)))
    IN  [ok |-> EndsWith(rest, SuffixOf(t)) /\ IsNumber(digits),
         label |-> SubSeq(l, 1, p - 1),
         index |-> IF IsNumber(digits) THEN ParseNat(digits) ELSE 0 - 1]

\* C3: for an enum with values v0..vN-1, Outputer.output_enum and the
\* renderers that delegate to it (Python2, Python3, Javascript, Vue, R)
\* write exactly N assignment lines, in declared order, the line at
\* position i binding vi to the integer i; the base renderer writes nothing
\* else.
C3_EnumIndexIsPosition ==
    (pc = "returned" /\ direct.kind = "enum"
        /\ last.t \in {"outputer", "python2", "python", "javascript", "vue",
                       "r"}) =>
        LET values == direct.enum.values
            lines == BindingLines(last.t, last.wrote)
        IN  /\ Len(lines) = Len(values)
            /\ \A j \in 1..Len(lines) :
                  LET b == ReadBinding(last.t, lines[j])
                  IN  b.ok /\ EndsWith(b.label, values[j]) /\ b.index = j - 1
            /\ last.t = "outputer" =>
                  Len(SplitLines(last.wrote)) = Len(values)

C3_Witness ==
    /\ pc = "returned"
    /\ direct.kind = "enum"
    /\ last.t = "vue"
    /\ direct.enum.values = << <<"g", "B">>, <<"R">>, <<"g", "B">> >>

\* what each renderer writes before the name, between name and literal,
\* and after the literal of a constant line
Leads(t) ==
    CASE t \in {"javascript", "vue"} ->
             { <<"e", "x", "p", "o", "r", "t", " ", "c", "o", "n", "s", "t",
                 " ">> }
      [] t = "java" ->
             { <<"\t", "p", "u", "b", "l", "i", "c", " ", "s", "t", "a", "t",
                 "i", "c", " ", "f", "i", "n", "a", "l", " ", "S", "t", "r",
                 "i", "n", "g", " ">>,
               <<"\t", "p", "u", "b", "l", "i", "c", " ", "s", "t", "a", "t",
                 "i", "c", " ", "f", "i", "n", "a", "l", " ", "i", "n", "t",
                 " ">> }
      [] t = "rust" -> { <<"p", "u", "b", " ", "c", "o", "n", "s", "t", " ">> }
      [] t = "c" -> { <<"#", "d", "e", "f", "i", "n", "e", " ">> }
      [] t = "dart" -> { <<"c", "o", "n", "s", "t", " ">> }
      [] OTHER -> { <<>> }
Seps(t) ==
    CASE t = "r" -> { <<" ", "<", "-", " ">> }
      [] t = "rust" -> { <<":", " ", "&", "s", "t", "r", " ", "=", " ">>,
                         <<":", " ", "i", "3", "2", " ", "=", " ">> }
      [] t = "c" -> { <<" ">> }
      [] OTHER -> { <<" ", "=", " ">> }
TailOf(t) ==
    IF t \in {"java", "rust", "dart"} THEN <<";", "\n">> ELSE <<"\n">>

NotParsed == [ok |-> FALSE, name |-> <<>>, value |-> IntVal(0), rest |-> <<>>]

\* the body of a double-quoted literal with backslash escapes, read up to
\* its closing quote; a raw line break ends the line before the literal ends
RECURSIVE ReadQuoted(_, _)
ReadQuoted(s, acc) ==
    IF s = <<>> \/ s[1] = "\n" THEN NotParsed
    ELSE IF s[1] = "\"" THEN [NotParsed EXCEPT !.ok = TRUE,
                                               !.value = StrVal(acc),
                                               !.rest = Tail(s)]
    ELSE IF s[1] = "\\"
    THEN IF Len(s) >= 2 /\ s[2] \in {"n", "\"", "\\"}
         THEN ReadQuoted(SubSeq(s, 3, Len(s)),
                         Append(acc, IF s[2] = "n" THEN "\n" ELSE s[2]))
         ELSE NotParsed
    ELSE ReadQuoted(Tail(s), Append(acc, s[1]))

\* an integer literal: an optional sign and digits
ReadInt(s) ==
    LET neg == s # <<>> /\ s[1] = "-"
        body == IF neg THEN Tail(s) ELSE s
        n == IF \E j \in 1..Len(body) : ~IsDigit(body[j])
             THEN (CHOOSE j \in 1..Len(body) :
                      ~IsDigit(body[j])
                      /\ \A q \in 1..(j - 1) : IsDigit(body[q])) - 1
             ELSE Len(body)
        v == ParseNat(SubSeq(body, 1, n))
    IN  IF n = 0 THEN NotParsed
        ELSE [NotParsed EXCEPT !.ok = TRUE,
                               !.value = IntVal(IF neg THEN 0 - v ELSE v),
                               !.rest = SubSeq(body, n + 1, Len(body))]

ReadLiteral(s) ==
    IF s # <<>> /\ s[1] = "\"" THEN ReadQuoted(Tail(s), <<>>) ELSE ReadInt(s)

\* a constant line read back with the target's literal rules
ReadConstantLine(t, line) ==
    LET shapes == { <<lead, sep, p>> \in Leads(t) \X Seps(t) \X (1..Len(line)) :
                      /\ MatchAt(line, 1, lead)
                      /\ p > Len(lead) + 1
                      /\ MatchAt(line, p, sep)
                      /\ \A q \in (Len(lead) + 2)..(p - 1), sp \in Seps(t) :
                            ~MatchAt(line, q, sp) }
    IN  IF shapes = {} THEN NotParsed
        ELSE LET sh == CHOOSE x \in shapes : TRUE
                 lit == ReadLiteral(SubSeq(line, sh[3] + Len(sh[2]), Len(line)))
             IN  [lit EXCEPT !.ok = lit.ok /\ lit.rest = TailOf(t),
                             !.name = SubSeq(line, Len(sh[1]) + 1, sh[3] - 1)]

\* C6: for every renderer and every int or str constant, reading the line
\* output_constant wrote gives back the constant's name and value.
C6_ConstantRoundTrip ==
    (pc = "returned" /\ direct.kind = "constant"
        /\ direct.constant.value.type \in {"int", "str"}) =>
        LET got == ReadConstantLine(last.t, last.wrote)
        IN  /\ ~last.raised
            /\ got.ok
            /\ got.name = direct.constant.name
            /\ got.value = direct.constant.value

IllegalCall ==
    /\ pc = "returned"
    /\ direct.kind = "constant"
    /\ direct.constant.value.type \notin {"int", "str"}

RaisedNaming(type) ==
    /\ last.raised
    /\ last.error = type
    /\ fs[last.t] = << <<>> >>

=============================================================================
